---- MODULE Spec2Model ----
(***************************************************************************)
(* A model of go-tron: the address codec (package address), the ABI word   *)
(* encoder and decoder (package abi), transaction signing (package tron)   *)
(* and the contract-call operations of the node client (package client).   *)
(*                                                                         *)
(* Conventions.  A byte is a number in 0..255 and a byte slice a sequence  *)
(* of bytes; Go index i is TLA+ index i+1.  A string is a sequence of      *)
(* one-character strings.  A number that does not fit a machine word of    *)
(* the checker (uint64, big.Int) is held the way math/big holds it: its    *)
(* big-endian magnitude bytes without leading zeros, and a sign.           *)
(***************************************************************************)
EXTENDS Integers, Sequences, FiniteSets, TLC

(***************************************************************************)
(* Bounds of the model.                                                    *)
(***************************************************************************)
MaxArgs == 2        \* arguments of one Encode call
MaxOutputs == 2     \* declared outputs of one Decode call
MaxWords == 2       \* whole words in a Decode input
MaxSigns == 3       \* Sign calls on one transaction
MaxEntries == 3     \* entries of one interface description
MaxPolls == 3       \* requests of one await call that are counted

(***************************************************************************)
(* Program constants.                                                      *)
(***************************************************************************)
prefix == 65        \* 0x41
AddressLen == 21
alignment == 32

(***************************************************************************)
(* Byte-slice helpers.                                                     *)
(***************************************************************************)
Fill(b, n) == [i \in 1..n |-> b]

Min(S) == CHOOSE x \in S : \A y \in S : x <= y

\* Go's copy(dst[off:], src), off a Go index: copies min(len(dst)-off, len(src)) bytes
copy(dst, off, src) ==
  [i \in 1..Len(dst) |->
     IF i > off /\ i - off <= Len(src) THEN src[i - off] ELSE dst[i]]

\* the bytes of a slice without its leading zero bytes (big.Int normal form)
StripZeros(bs) ==
  LET nz == {i \in 1..Len(bs) : bs[i] # 0}
  IN IF nz = {} THEN <<>> ELSE SubSeq(bs, Min(nz), Len(bs))

\* the number of leading elements of s equal to c
LeadingCount(s, c) ==
  LET d == {i \in 1..Len(s) : s[i] # c}
  IN IF d = {} THEN Len(s) ELSE Min(d) - 1

Front(s) == SubSeq(s, 1, Len(s) - 1)

(***************************************************************************)
(* encoding/hex                                                            *)
(***************************************************************************)
hextable == <<"0","1","2","3","4","5","6","7","8","9","a","b","c","d","e","f">>
hexupper == <<"0","1","2","3","4","5","6","7","8","9","A","B","C","D","E","F">>

\* hex.EncodeToString
EncodeToString(bs) ==
  [i \in 1..(2 * Len(bs)) |->
     IF i % 2 = 1 THEN hextable[(bs[(i + 1) \div 2] \div 16) + 1]
                  ELSE hextable[(bs[i \div 2] % 16) + 1]]

\* hex.fromHexChar; -1 for a character that is not a hexadecimal digit
fromHexChar(c) ==
  IF \E i \in 1..16 : hextable[i] = c
    THEN (CHOOSE i \in 1..16 : hextable[i] = c) - 1
    ELSE IF \E i \in 1..16 : hexupper[i] = c
      THEN (CHOOSE i \in 1..16 : hexupper[i] = c) - 1
      ELSE -1

\* hex.DecodeString: the bytes decoded before the first fault, and the error
DecodeString(s) ==
  LET n == Len(s) \div 2
      bad == {i \in 1..n : fromHexChar(s[2*i - 1]) = -1 \/ fromHexChar(s[2*i]) = -1}
      good == IF bad = {} THEN n ELSE Min(bad) - 1
      bytes == [i \in 1..good |-> 16 * fromHexChar(s[2*i - 1]) + fromHexChar(s[2*i])]
  IN IF bad # {} THEN [bytes |-> bytes, err |-> "InvalidByteError"]
     ELSE IF Len(s) % 2 = 1
       THEN [bytes |-> bytes,
             err |-> IF fromHexChar(s[Len(s)]) = -1 THEN "InvalidByteError" ELSE "ErrLength"]
       ELSE [bytes |-> bytes, err |-> ""]

(***************************************************************************)
(* btcutil/base58                                                          *)
(***************************************************************************)
alphabet ==
  <<"1","2","3","4","5","6","7","8","9",
    "A","B","C","D","E","F","G","H","J","K","L","M","N","P","Q","R","S","T","U","V","W","X","Y","Z",
    "a","b","c","d","e","f","g","h","i","j","k","m","n","o","p","q","r","s","t","u","v","w","x","y","z">>

\* base58's b58 table: the digit of a character, -1 for a character outside the alphabet
b58(c) ==
  IF \E i \in 1..58 : alphabet[i] = c
    THEN (CHOOSE i \in 1..58 : alphabet[i] = c) - 1
    ELSE -1

\* The loops of base58 are recursions with accumulators.  The guards on the
\* accumulators (Len(acc) < 0 and the like) are never true: they make TLC
\* evaluate each accumulator at every step instead of building a chain of
\* unevaluated arguments as deep as the loop is long.

\* big.Int DivMod by 58 on big-endian magnitude bytes, most significant byte
\* first: q collects the quotient bytes, rem is the running remainder
RECURSIVE DivMod58(_, _, _)
DivMod58(bs, q, rem) ==
  IF bs = <<>> \/ rem < 0 \/ Len(q) < 0 THEN [q |-> q, rem |-> rem]
  ELSE LET cur == rem * 256 + bs[1]
       IN DivMod58(Tail(bs), Append(q, cur \div 58), cur % 58)

\* big.Int x*58 + d on big-endian magnitude bytes, least significant byte
\* first: acc collects the result bytes, carry starts as d
RECURSIVE MulAdd58(_, _, _)
MulAdd58(bs, carry, acc) ==
  IF bs = <<>> \/ carry < 0 \/ Len(acc) < 0 THEN <<carry>> \o acc
  ELSE LET cur == bs[Len(bs)] * 58 + carry
       IN MulAdd58(Front(bs), cur \div 256, <<cur % 256>> \o acc)

\* base58.Encode: the digits of the number, least significant first, written
\* most significant first after one "1" per leading zero byte
RECURSIVE EncodeDigits(_, _)
EncodeDigits(x, acc) ==
  IF x = <<>> \/ Len(acc) < 0 THEN acc
  ELSE LET dm == DivMod58(x, <<>>, 0)
       IN EncodeDigits(StripZeros(dm.q), <<alphabet[dm.rem + 1]>> \o acc)

Base58Encode(bs) ==
  Fill("1", LeadingCount(bs, 0)) \o EncodeDigits(StripZeros(bs), <<>>)

\* base58.Decode: the empty slice when a character is outside the alphabet
RECURSIVE DecodeDigits(_, _)
DecodeDigits(s, x) ==
  IF s = <<>> \/ Len(x) < 0 THEN x
  ELSE DecodeDigits(Tail(s), StripZeros(MulAdd58(x, b58(s[1]), <<>>)))

Base58Decode(s) ==
  IF \E i \in 1..Len(s) : b58(s[i]) = -1 THEN <<>>
  ELSE Fill(0, LeadingCount(s, "1")) \o DecodeDigits(s, <<>>)

\* base58's checksum, the first four bytes of a double SHA-256.  The digest is
\* abstracted by a position-weighted sum: a deterministic function of the bytes
\* that changes when a byte changes.
RECURSIVE WeightedSum(_, _, _)
WeightedSum(bs, k, w) ==
  IF bs = <<>> THEN 0
  ELSE ((k + w) * (bs[1] + 1) + WeightedSum(Tail(bs), k + 1, w)) % 256

checksum(bs) ==
  <<WeightedSum(bs, 1, 0), WeightedSum(bs, 1, 7), WeightedSum(bs, 1, 13), Len(bs) % 256>>

\* base58.CheckEncode
CheckEncode(input, version) ==
  LET b == <<version>> \o input
  IN Base58Encode(b \o checksum(b))

\* base58.CheckDecode
CheckDecode(input) ==
  LET decoded == Base58Decode(input)
      n == Len(decoded)
  IN IF n < 5 THEN [result |-> <<>>, version |-> 0, err |-> "ErrInvalidFormat"]
     ELSE IF checksum(SubSeq(decoded, 1, n - 4)) # SubSeq(decoded, n - 3, n)
       THEN [result |-> <<>>, version |-> 0, err |-> "ErrChecksum"]
       ELSE [result |-> SubSeq(decoded, 2, n - 4), version |-> decoded[1], err |-> ""]

(***************************************************************************)
(* package address                                                         *)
(***************************************************************************)
Zero == Fill(0, AddressLen)

\* FromPublicKey, given the Keccak-256 digest h of the key's coordinate bytes
FromPublicKey(h) ==
  copy([Zero EXCEPT ![1] = prefix], 1, SubSeq(h, 13, Len(h)))

FromBase16(str) ==
  LET d == DecodeString(str)
  IN IF d.err # "" THEN [addr |-> Zero, err |-> d.err]
     ELSE IF Len(d.bytes) # AddressLen THEN [addr |-> Zero, err |-> "InvalidLength"]
     ELSE [addr |-> copy(Zero, 0, d.bytes), err |-> ""]

\* FromBase58 returning the parsed bytes next to the invalid-prefix error
FromBase58KeepingPayload(str) ==
  LET d == CheckDecode(str)
  IN IF d.err # "" THEN [addr |-> Zero, err |-> d.err]
     ELSE IF d.version # prefix
       THEN [addr |-> copy([Zero EXCEPT ![1] = d.version], 1, d.result), err |-> "InvalidPrefix"]
     ELSE [addr |-> copy([Zero EXCEPT ![1] = prefix], 1, d.result), err |-> ""]

FromBase58(str) ==
  LET d == CheckDecode(str)
  IN IF d.err # "" THEN [addr |-> Zero, err |-> d.err]
     ELSE IF d.version # prefix THEN [addr |-> Zero, err |-> "InvalidPrefix"]
     ELSE [addr |-> copy([Zero EXCEPT ![1] = prefix], 1, d.result), err |-> ""]

ToBase16(a) == EncodeToString(a)

\* ToBase58 encoding the whole array, prefix byte included
ToBase58WithPrefix(a) == CheckEncode(a, prefix)

ToBase58(a) == CheckEncode(SubSeq(a, 2, Len(a)), prefix)

\* Address.UnmarshalJSON on receiver a; the JSON text b is a string literal of
\* content b.str or (b.isString false) some other JSON value
UnmarshalJSON(a, b) ==
  IF ~b.isString THEN [addr |-> a, err |-> "UnmarshalTypeError"]
  ELSE LET r == CASE Len(b.str) = 42 -> FromBase16(b.str)
                  [] Len(b.str) = 34 -> FromBase58(b.str)
                  [] OTHER -> [addr |-> a, err |-> "UnexpectedLength"]
       IN IF r.err # "" THEN [addr |-> a, err |-> r.err]
          ELSE [addr |-> r.addr, err |-> ""]

(***************************************************************************)
(* package abi.  A Go value is a record: type names its dynamic type, val   *)
(* holds a bool, the bytes of an array, or the magnitude bytes of a number  *)
(* (no leading zeros), and neg is the sign of a *big.Int.                   *)
(***************************************************************************)
TypeBool == "bool"
TypeBytes32 == "bytes32"
TypeUint256 == "uint256"

GoValue(t, v) == [type |-> t, neg |-> FALSE, val |-> v]
BigInt(neg, mag) == [type |-> "*big.Int", neg |-> neg, val |-> mag]

\* Function.Payable
Payable(f) == f.Mutability = "payable"

\* Immutable answering true for "view" alone
ImmutableViewOnly(f) == f.Mutability = "view"

\* Function.Immutable
Immutable(f) == f.Mutability \in {"pure", "view"}

\* binary.Size of an unsigned integer argument
BinarySize(arg) ==
  CASE arg.type = "uint8" -> 1
    [] arg.type = "uint16" -> 2
    [] arg.type = "uint32" -> 4
    [] arg.type = "uint64" -> 8

\* the bytes of s in reverse order
Reverse(s) == [i \in 1..Len(s) |-> s[Len(s) + 1 - i]]

\* binary.Write called with binary.LittleEndian
BinaryWriteLittleEndian(buf, arg) ==
  buf \o Reverse(Fill(0, BinarySize(arg) - Len(arg.val)) \o arg.val)

\* binary.Write(&buf, binary.BigEndian, arg): the value in BinarySize(arg) bytes
BinaryWrite(buf, arg) ==
  buf \o Fill(0, BinarySize(arg) - Len(arg.val)) \o arg.val

\* leftPad: buf.Write(fill[:n]); slicing the 32-byte array panics unless 0 <= n <= 32
leftPad(buf, b, n) ==
  IF n < 0 \/ n > alignment
    THEN [buf |-> buf, panic |-> "slice bounds out of range"]
    ELSE [buf |-> buf \o Fill(b, n), panic |-> ""]

\* one iteration of the loop of Function.Encode
EncodeArg(buf, arg) ==
  CASE arg.type \in {"uint8", "uint16", "uint32", "uint64"} ->
         LET p == leftPad(buf, 0, alignment - BinarySize(arg))
         IN IF p.panic # "" THEN p ELSE [buf |-> BinaryWrite(p.buf, arg), panic |-> ""]
    [] arg.type = "Address" ->
         LET p == leftPad(buf, 0, alignment - Len(arg.val) + 1)
         IN IF p.panic # "" THEN p
            ELSE [buf |-> p.buf \o SubSeq(arg.val, 2, Len(arg.val)), panic |-> ""]
    [] arg.type = "*big.Int" ->
         LET b == arg.val
             p == IF arg.neg THEN leftPad(buf, 255, alignment - Len(b))
                             ELSE leftPad(buf, 0, alignment - Len(b))
         IN IF p.panic # "" THEN p ELSE [buf |-> p.buf \o arg.val, panic |-> ""]
    [] OTHER -> [buf |-> buf, panic |-> "abi: cannot encode given argument, unsupported type"]

\* Function.Encode: the bytes returned, or the panic that ends the call
RECURSIVE EncodeLoop(_, _)
EncodeLoop(args, buf) ==
  IF args = <<>> THEN [bytes |-> buf, panic |-> ""]
  ELSE LET r == EncodeArg(buf, args[1])
       IN IF r.panic # "" THEN [bytes |-> <<>>, panic |-> r.panic]
          ELSE EncodeLoop(Tail(args), r.buf)

Encode(args) == EncodeLoop(args, <<>>)

\* bytes.Reader.Read(p) with len(p) = 32 at offset i of b: io.EOF when nothing
\* is left, otherwise the bytes copied into p (here a zeroed p) and the count
Read(b, i) ==
  IF i >= Len(b) THEN [n |-> 0, p |-> Fill(0, alignment), err |-> "EOF"]
  ELSE LET n == IF Len(b) - i < alignment THEN Len(b) - i ELSE alignment
       IN [n |-> n, p |-> copy(Fill(0, alignment), 0, SubSeq(b, i + 1, i + n)), err |-> ""]

\* Function.Decode: result holds the values appended so far, i is the offset of
\* the reader r.  The returned values are nil on error; a panic ends the call.
RECURSIVE DecodeLoop(_, _, _, _)
DecodeLoop(outs, b, i, result) ==
  IF outs = <<>> THEN [values |-> result, err |-> "", panic |-> ""]
  ELSE LET t == outs[1].Type
           rd == Read(b, i)
       IN CASE t = TypeBool ->
                 IF rd.err # "" THEN [values |-> <<>>, err |-> rd.err, panic |-> ""]
                 ELSE IF Len(b) < alignment
                   THEN [values |-> <<>>, err |-> "", panic |-> "index out of range"]
                   ELSE DecodeLoop(Tail(outs), b, i + rd.n,
                                   Append(result, GoValue("bool", b[alignment] # 0)))
            [] t = TypeBytes32 ->
                 IF rd.err # "" THEN [values |-> <<>>, err |-> rd.err, panic |-> ""]
                 ELSE DecodeLoop(Tail(outs), b, i + rd.n,
                                 Append(result, GoValue("[32]byte", rd.p)))
            [] t = TypeUint256 ->
                 IF rd.err # "" THEN [values |-> <<>>, err |-> rd.err, panic |-> ""]
                 ELSE DecodeLoop(Tail(outs), b, i + rd.n,
                                 Append(result, BigInt(FALSE, StripZeros(b))))
            [] OTHER -> DecodeLoop(Tail(outs), b, i, result)

Decode(f, b) == DecodeLoop(f.Outputs, b, 0, <<>>)

\* Function.GetOutputIndex
GetOutputIndex(f, name) ==
  LET m == {i \in 1..Len(f.Outputs) : f.Outputs[i].Name = name}
  IN IF m = {} THEN -1 ELSE Min(m) - 1

\* Function.Signature, as the sequence of the pieces written to the builder
RECURSIVE SignatureInputs(_, _)
SignatureInputs(ins, i) ==
  IF i > Len(ins) THEN <<>>
  ELSE (IF i > 1 THEN <<",">> ELSE <<>>) \o <<ins[i].Type>> \o SignatureInputs(ins, i + 1)

Signature(f) == <<f.Name, "(">> \o SignatureInputs(f.Inputs, 1) \o <<")">>

\* strconv.Atoi on the text after the "$" of a selector: an optional sign and
\* decimal digits
decimal == <<"0","1","2","3","4","5","6","7","8","9">>

DigitOf(c) ==
  IF \E i \in 1..10 : decimal[i] = c THEN (CHOOSE i \in 1..10 : decimal[i] = c) - 1 ELSE -1

RECURSIVE AtoiDigits(_, _)
AtoiDigits(s, n) ==
  IF s = <<>> THEN n ELSE AtoiDigits(Tail(s), 10 * n + DigitOf(s[1]))

Atoi(s) ==
  LET signed == s # <<>> /\ s[1] \in {"+", "-"}
      digits == IF signed THEN Tail(s) ELSE s
  IN IF digits = <<>> \/ \E i \in 1..Len(digits) : DigitOf(digits[i]) = -1
       THEN [n |-> 0, err |-> "ErrSyntax"]
       ELSE [n |-> IF signed /\ s[1] = "-" THEN 0 - AtoiDigits(digits, 0) ELSE AtoiDigits(digits, 0),
             err |-> ""]

\* reflect's assignability of a decoded value to a field of static type ft
Assignable(value, ft) == ft = "interface{}" \/ ft = value.type

\* the loop of Unmarshal over the fields of the target from field i on; each
\* field is [tag: the selector of its abi tag, "" without one, type, value]
RECURSIVE UnmarshalFields(_, _, _, _)
UnmarshalFields(f, values, v, i) ==
  IF i > Len(v) THEN [v |-> v, err |-> "", panic |-> ""]
  ELSE LET selector == v[i].tag
           positional == selector # <<>> /\ selector[1] = "$"
           a == IF positional THEN Atoi(Tail(selector)) ELSE [n |-> 0, err |-> ""]
           index == IF positional THEN a.n ELSE GetOutputIndex(f, selector)
       IN IF a.err # "" THEN [v |-> v, err |-> a.err, panic |-> ""]
          ELSE IF index = -1 THEN UnmarshalFields(f, values, v, i + 1)
          ELSE IF index < 0 \/ index >= Len(values)
            THEN [v |-> v, err |-> "", panic |-> "index out of range"]
          ELSE IF ~Assignable(values[index + 1], v[i].type)
            THEN [v |-> v, err |-> "", panic |-> "reflect.Set: value is not assignable"]
          ELSE UnmarshalFields(f, values, [v EXCEPT ![i].value = values[index + 1]], i + 1)

\* Unmarshal(data, fn, v): the target after the call, the error or the panic
Unmarshal(data, f, v) ==
  LET d == Decode(f, data)
  IN IF d.panic # "" THEN [v |-> v, err |-> "", panic |-> d.panic]
     ELSE IF d.err # "" THEN [v |-> v, err |-> d.err, panic |-> ""]
     ELSE UnmarshalFields(f, d.values, v, 1)

\* the zero Function and the zero ABI; a map is a function on the set of its keys
NoFunction == [Name |-> "", Mutability |-> "", Inputs |-> <<>>, Outputs |-> <<>>]
NoABI == [Constructor |-> NoFunction, Functions |-> <<>>, Events |-> <<>>]

\* m[k] = v on a Go map
Store(m, k, v) == [x \in DOMAIN m \cup {k} |-> IF x = k THEN v ELSE m[x]]

\* the Function and the Event literals built from an entry
EntryFunction(entry) ==
  [Name |-> entry.Name, Mutability |-> entry.Mutability,
   Inputs |-> entry.Inputs, Outputs |-> entry.Outputs]

EntryEvent(entry) == [Name |-> entry.Name, Inputs |-> entry.Inputs]

\* the switch on entry.Type keeping what is already stored under a name
RouteKeepingFirst(a, entry) ==
  CASE entry.Type = "Constructor" ->
         IF a.Constructor = NoFunction THEN [a EXCEPT !.Constructor = EntryFunction(entry)] ELSE a
    [] entry.Type = "Function" ->
         IF entry.Name \in DOMAIN a.Functions THEN a
         ELSE [a EXCEPT !.Functions = Store(a.Functions, entry.Name, EntryFunction(entry))]
    [] entry.Type = "Event" ->
         IF entry.Name \in DOMAIN a.Events THEN a
         ELSE [a EXCEPT !.Events = Store(a.Events, entry.Name, EntryEvent(entry))]
    [] OTHER -> a

\* the switch on entry.Type in the loop of ABI.UnmarshalJSON
Route(a, entry) ==
  CASE entry.Type = "Constructor" -> [a EXCEPT !.Constructor = EntryFunction(entry)]
    [] entry.Type = "Function" ->
         [a EXCEPT !.Functions = Store(a.Functions, entry.Name, EntryFunction(entry))]
    [] entry.Type = "Event" ->
         [a EXCEPT !.Events = Store(a.Events, entry.Name, EntryEvent(entry))]
    [] OTHER -> a

RECURSIVE RouteAll(_, _)
RouteAll(a, entries) ==
  IF entries = <<>> THEN a ELSE RouteAll(Route(a, entries[1]), Tail(entries))

\* ABI.UnmarshalJSON on receiver a.  data is the JSON text as json.Unmarshal
\* sees it: an array of objects, given by the entries they decode to (a key
\* that is absent leaves the zero value), or a text that it rejects.
ABIUnmarshalJSON(a, data) ==
  LET a1 == [a EXCEPT !.Functions = <<>>, !.Events = <<>>]
  IN IF ~data.isArray THEN [abi |-> a1, err |-> "UnmarshalTypeError"]
     ELSE [abi |-> RouteAll(a1, data.entries), err |-> ""]

(***************************************************************************)
(* package tron: Transaction                                               *)
(***************************************************************************)
SigLen == 65
HashLen == 32

\* the zero Transaction
NoTransaction == [Id |-> <<>>, Signatures |-> <<>>, RawData |-> "nil"]

\* crypto.Sign(hash, key): secp256k1 is abstracted by a deterministic function
\* of the digest and the key that yields the 65 signature bytes; the digest
\* must be 32 bytes long
cryptoSign(hash, key) ==
  IF Len(hash) # HashLen THEN [sig |-> <<>>, err |-> "hash is required to be exactly 32 bytes"]
  ELSE [sig |-> [i \in 1..SigLen |-> (hash[((i - 1) % HashLen) + 1] + key * i) % 256],
        err |-> ""]

\* Sign storing the new signature as the whole list instead of appending it
SignReplacing(tx, key) ==
  LET h == DecodeString(tx.Id)
      s == cryptoSign(h.bytes, key)
  IN IF h.err # "" THEN [tx |-> tx, err |-> h.err]
     ELSE IF s.err # "" THEN [tx |-> tx, err |-> s.err]
     ELSE [tx |-> [tx EXCEPT !.Signatures = <<EncodeToString(s.sig)>>], err |-> ""]

\* Sign dropping the error of hex.DecodeString and signing the bytes it got
SignIgnoringHexError(tx, key) ==
  LET h == DecodeString(tx.Id)
      s == cryptoSign(h.bytes, key)
  IN IF s.err # "" THEN [tx |-> tx, err |-> s.err]
     ELSE [tx |-> [tx EXCEPT !.Signatures = Append(tx.Signatures, EncodeToString(s.sig))],
           err |-> h.err]

\* Transaction.Sign: the transaction after the call and the error returned
Sign(tx, key) ==
  LET t1 == IF Len(tx.Signatures) = 0 THEN [tx EXCEPT !.Signatures = <<>>] ELSE tx
      h == DecodeString(tx.Id)
      s == cryptoSign(h.bytes, key)
  IN IF h.err # "" THEN [tx |-> t1, err |-> h.err]
     ELSE IF s.err # "" THEN [tx |-> t1, err |-> s.err]
     ELSE [tx |-> [t1 EXCEPT !.Signatures = Append(t1.Signatures, EncodeToString(s.sig))],
           err |-> ""]

(***************************************************************************)
(* package account                                                         *)
(***************************************************************************)
\* LocalAccount.Sign
AccountSign(acc, signable) == Sign(signable, acc.priv)

(***************************************************************************)
(* package client.  A call is modelled whole: steps lists, in order, what   *)
(* the call executed (the argument encoding, a post to the node, a          *)
(* signature, an unmarshal), posts the requests sent, and the rest what it  *)
(* returned; panic is set when the call ended in a panic instead.  reply    *)
(* is what the node answers if a request is posted: the error of post or    *)
(* the decoded response.                                                    *)
(***************************************************************************)
ErrNonPayable == "client: cannot send tron to non-payable function"

Endpoint(f) ==
  IF Immutable(f) THEN "wallet/triggerconstantcontract" ELSE "wallet/triggersmartcontract"

CallRequest(input, owner, parameter) ==
  [ContractAddress |-> ToBase16(input.Address),
   FunctionSelector |-> Signature(input.Function),
   Parameter |-> EncodeToString(parameter),
   FeeLimit |-> input.FeeLimit,
   CallValue |-> input.CallValue,
   OwnerAddress |-> ToBase16(owner)]

Outcome(steps, posts, tx, results, target, err, panic) ==
  [steps |-> steps, posts |-> posts, tx |-> tx, results |-> results,
   target |-> target, err |-> err, panic |-> panic]

\* Client.CallContract
CallContract(acc, input, reply) ==
  LET f == input.Function
      enc == Encode(input.Arguments)
      post == [endpoint |-> Endpoint(f), request |-> CallRequest(input, acc.addr, enc.bytes)]
      hx == DecodeString(reply.Result[1])
      um == Unmarshal(hx.bytes, f, input.Result)
      sg == AccountSign(acc, reply.Transaction)
  IN IF enc.panic # ""
       THEN Outcome(<<"Encode">>, <<>>, NoTransaction, <<>>, input.Result, "", enc.panic)
     ELSE IF ~Payable(f) /\ input.CallValue > 0
       THEN Outcome(<<"Encode">>, <<>>, NoTransaction, <<>>, input.Result, ErrNonPayable, "")
     ELSE IF reply.err # ""
       THEN Outcome(<<"Encode", "post">>, <<post>>, NoTransaction, <<>>, input.Result, reply.err, "")
     ELSE IF Immutable(f)
       THEN IF Len(reply.Result) < 1
              THEN Outcome(<<"Encode", "post">>, <<post>>, NoTransaction, <<>>, input.Result, "", "")
            ELSE IF hx.err # ""
              THEN Outcome(<<"Encode", "post">>, <<post>>, NoTransaction, <<>>, input.Result, hx.err, "")
            ELSE Outcome(<<"Encode", "post", "Unmarshal">>, <<post>>, NoTransaction, <<>>,
                         um.v, um.err, um.panic)
     ELSE IF sg.err # ""
       THEN Outcome(<<"Encode", "post", "Sign">>, <<post>>, NoTransaction, <<>>, input.Result, sg.err, "")
       ELSE Outcome(<<"Encode", "post", "Sign">>, <<post>>, sg.tx, <<>>, input.Result, "", "")

\* Client.TriggerSmartContract
TriggerSmartContract(acc, input, reply) ==
  LET f == input.Function
      enc == Encode(input.Arguments)
      post == [endpoint |-> Endpoint(f), request |-> CallRequest(input, input.Address, enc.bytes)]
  IN IF enc.panic # ""
       THEN Outcome(<<"Encode">>, <<>>, NoTransaction, <<>>, input.Result, "", enc.panic)
     ELSE IF ~Payable(f) /\ input.CallValue > 0
       THEN Outcome(<<"Encode">>, <<>>, NoTransaction, <<>>, input.Result, ErrNonPayable, "")
     ELSE IF reply.err # ""
       THEN Outcome(<<"Encode", "post">>, <<post>>, NoTransaction, <<>>, input.Result, reply.err, "")
     ELSE IF Len(reply.Result) < 1
       THEN Outcome(<<"Encode", "post">>, <<post>>, NoTransaction, <<>>, input.Result,
                    "response result length err", "")
       ELSE Outcome(<<"Encode", "post">>, <<post>>, NoTransaction, reply.Result, input.Result, "", "")

\* Client.BroadcastTransaction, given the node's answer to the post
BroadcastTransaction(reply) ==
  IF reply.err # "" THEN reply.err
  ELSE IF ~reply.Result THEN "client: failed to broadcast transaction"
  ELSE ""

\* Client.TransactionInfoById, given the node's answer to the post: isNil
\* tells that the returned pointer is nil
TransactionInfoById(id, reply) ==
  IF reply.err # "" THEN [isNil |-> TRUE, info |-> reply.info, err |-> reply.err]
  ELSE IF reply.info.Id = <<>> THEN [isNil |-> TRUE, info |-> reply.info, err |-> ""]
  ELSE [isNil |-> FALSE, info |-> reply.info, err |-> ""]

\* Client.DeployContract up to its last statement: the transaction signed and
\* broadcast, the error returned, the panic, or awaiting set when the call
\* goes on to await(tx.Id)
DeployContract(acc, input, reply, broadcast) ==
  LET enc == Encode(input.Arguments)
      sg == AccountSign(acc, reply.Transaction)
      bc == BroadcastTransaction(broadcast)
      ended(tx, err, panic) == [tx |-> tx, err |-> err, panic |-> panic, awaiting |-> FALSE]
  IN IF enc.panic # "" THEN ended(NoTransaction, "", enc.panic)
     ELSE IF reply.err # "" THEN ended(NoTransaction, reply.err, "")
     ELSE IF sg.err # "" THEN ended(sg.tx, sg.err, "")
     ELSE IF bc # "" THEN ended(sg.tx, bc, "")
     ELSE [tx |-> sg.tx, err |-> "", panic |-> "", awaiting |-> TRUE]

(***************************************************************************)
(* State.                                                                  *)
(***************************************************************************)
VARIABLES
  addr,      \* the Address a caller holds: the result of the last address operation
  addrErr,   \* the error that operation returned, "" for none
  addrOp,    \* the operation
  addrIn,    \* the text it parsed
  text,      \* the text a caller holds: made by ToBase16 or ToBase58, or parsed last
  textOf,    \* if it was made: the address it was made from, how that was obtained, the form
  abiIn,     \* the input a caller of package abi starts from: arguments, or a function and data
  abiCall,   \* the last Encode or Decode call: what it was given and what it returned
  tx,        \* a Transaction value held by a caller
  tx0,       \* that transaction as it was received from the node
  signLog,   \* for every Sign call on it since: the key, the error, the list before and after
  cliIn,     \* the input of a client call: account, call input, and the node's reply to a post
  cliCall,   \* the call made with it and its outcome
  depIn,     \* the input of a DeployContract call, and how the node will answer
  pc,        \* where that call is: not started, in the loop of await, asleep in it, ended
  depTx,     \* its transaction
  polls,     \* the number of TransactionInfoById requests await has made, up to MaxPolls
  depOut     \* what the call returned

addrVars == <<addr, addrErr, addrOp, addrIn, text, textOf>>
abiVars == <<abiIn, abiCall>>
signVars == <<tx, tx0, signLog>>
depVars == <<depIn, pc, depTx, polls, depOut>>
cliVars == <<cliIn, cliCall, depVars>>
vars == <<addrVars, abiVars, signVars, cliVars>>

AddrInit ==
  /\ addr = Zero /\ addrErr = "" /\ addrOp = "none" /\ addrIn = <<>>
  /\ text = <<>> /\ textOf = [addr |-> Zero, op |-> "none", form |-> "none"]

AbiIdle == abiIn = [kind |-> "none"] /\ abiCall = [op |-> "none"]

SignInit == tx = NoTransaction /\ tx0 = NoTransaction /\ signLog = <<>>

DepIdle ==
  /\ depIn = [kind |-> "none"] /\ pc = "none" /\ depTx = NoTransaction /\ polls = 0
  /\ depOut = [op |-> "none"]

CliIdle == cliIn = [kind |-> "none"] /\ cliCall = [op |-> "none"] /\ DepIdle

(***************************************************************************)
(* Address operations.  The inputs: Keccak-256 digests of public keys, and  *)
(* texts that are well formed, of a wrong length, of another network, with  *)
(* a wrong checksum or with a character outside the alphabet.               *)
(***************************************************************************)
KeccakSamples ==
  {Fill(0, 32), Fill(255, 32), [i \in 1..32 |-> (i * 37) % 256]}

Payload20 == [i \in 1..20 |-> (i * 11) % 256]
OtherNetwork == <<160>> \o Payload20

ToUpper(s) ==
  [i \in 1..Len(s) |-> IF fromHexChar(s[i]) = -1 THEN s[i] ELSE hexupper[fromHexChar(s[i]) + 1]]

Base16Inputs ==
  LET h == ToBase16(<<prefix>> \o Payload20)
  IN {h, ToUpper(h), ToBase16(Zero), ToBase16(OtherNetwork),
      SubSeq(h, 1, 40), h \o <<"0", "0">>, SubSeq(h, 1, 41), [h EXCEPT ![5] = "g"]}

Base58Inputs ==
  LET good == CheckEncode(Payload20, prefix)
  IN {good, CheckEncode(Payload20, 0), CheckEncode(Payload20, 160),
      CheckEncode(SubSeq(Payload20, 1, 19), prefix), CheckEncode(Payload20 \o <<7>>, prefix),
      [good EXCEPT ![34] = IF good[34] = "2" THEN "3" ELSE "2"],
      [good EXCEPT ![5] = "0"], <<"1", "1">>}

JSONInputs ==
  {[isString |-> TRUE, str |-> s] : s \in Base16Inputs \cup Base58Inputs \cup {text}}
    \cup {[isString |-> FALSE, str |-> <<>>]}

\* the caller parses the text it made, or a text from elsewhere that replaces it
Holds(str) ==
  IF str = text THEN UNCHANGED <<text, textOf>>
  ELSE text' = str /\ textOf' = [addr |-> Zero, op |-> "none", form |-> "none"]

DoFromPublicKey(h) ==
  /\ addr' = FromPublicKey(h)
  /\ addrErr' = ""
  /\ addrOp' = "FromPublicKey"
  /\ addrIn' = <<>>
  /\ UNCHANGED <<text, textOf, abiVars, signVars, cliVars>>

DoFromBase16(str) ==
  LET r == FromBase16(str)
  IN /\ addr' = r.addr
     /\ addrErr' = r.err
     /\ addrOp' = "FromBase16"
     /\ addrIn' = str
     /\ Holds(str)
     /\ UNCHANGED <<abiVars, signVars, cliVars>>

DoFromBase58(str) ==
  LET r == FromBase58(str)
  IN /\ addr' = r.addr
     /\ addrErr' = r.err
     /\ addrOp' = "FromBase58"
     /\ addrIn' = str
     /\ Holds(str)
     /\ UNCHANGED <<abiVars, signVars, cliVars>>

DoUnmarshalJSON(b) ==
  LET r == UnmarshalJSON(addr, b)
  IN /\ addr' = r.addr
     /\ addrErr' = r.err
     /\ addrOp' = "UnmarshalJSON"
     /\ addrIn' = b.str
     /\ Holds(b.str)
     /\ UNCHANGED <<abiVars, signVars, cliVars>>

DoToBase16 ==
  /\ text' = ToBase16(addr)
  /\ textOf' = [addr |-> addr, op |-> IF addrErr = "" THEN addrOp ELSE "none", form |-> "ToBase16"]
  /\ UNCHANGED <<addr, addrErr, addrOp, addrIn, abiVars, signVars, cliVars>>

DoToBase58 ==
  /\ text' = ToBase58(addr)
  /\ textOf' = [addr |-> addr, op |-> IF addrErr = "" THEN addrOp ELSE "none", form |-> "ToBase58"]
  /\ UNCHANGED <<addr, addrErr, addrOp, addrIn, abiVars, signVars, cliVars>>

AddrNext ==
  \/ \E h \in KeccakSamples : DoFromPublicKey(h)
  \/ \E str \in Base16Inputs \cup {text} : DoFromBase16(str)
  \/ \E str \in Base58Inputs \cup {text} : DoFromBase58(str)
  \/ \E b \in JSONInputs : DoUnmarshalJSON(b)
  \/ DoToBase16
  \/ DoToBase58

(***************************************************************************)
(* Claims about addresses.                                                 *)
(***************************************************************************)
\* C1: every Address returned without error by FromPublicKey, FromBase16 or
\* FromBase58, and every Address stored by UnmarshalJSON, has byte 0 equal to
\* the network prefix.
C1_PrefixOfEveryAddress ==
  (addrOp \in {"FromPublicKey", "FromBase16", "FromBase58", "UnmarshalJSON"} /\ addrErr = "")
    => addr[1] = prefix

\* C10: for an address a made by FromPublicKey, FromBase16(a.ToBase16()) and
\* FromBase58(a.ToBase58()) succeed and return a.
C10_TextRoundTrip ==
  ( /\ textOf.op = "FromPublicKey"
    /\ addrIn = text
    /\ \/ addrOp = "FromBase16" /\ textOf.form = "ToBase16"
       \/ addrOp = "FromBase58" /\ textOf.form = "ToBase58" )
    => addrErr = "" /\ addr = textOf.addr

\* the base-58 text of a key's address has been parsed back
C10_Witness ==
  /\ textOf.op = "FromPublicKey"
  /\ addrIn = text
  /\ addrOp = "FromBase58" /\ textOf.form = "ToBase58"
  /\ textOf.addr # FromPublicKey(Fill(0, 32))

\* C11: FromBase58 of a string that base-58-check-decodes successfully with a
\* version byte other than the network prefix returns an InvalidPrefix error
\* and the all-zero address; no FromBase58 call returns an error together with
\* a non-zero address.
C11_InvalidPrefixReturnsZero ==
  addrOp = "FromBase58" =>
    /\ LET d == CheckDecode(addrIn)
       IN (d.err = "" /\ d.version # prefix) => (addrErr = "InvalidPrefix" /\ addr = Zero)
    /\ addrErr # "" => addr = Zero

\* a well-formed base-58 text of another network (version 0xa0) has been parsed
C11_Witness ==
  /\ addrOp = "FromBase58"
  /\ addrIn = CheckEncode(Payload20, 160)
  /\ addrErr = "InvalidPrefix"

InitAddress == AddrInit /\ AbiIdle /\ SignInit /\ CliIdle

SpecAddress == InitAddress /\ [][AddrNext]_vars

(***************************************************************************)
(* Encoding and decoding.  A caller starts from arguments to encode, or     *)
(* from a function and the bytes a contract returned; it may decode what    *)
(* it encoded.                                                              *)
(***************************************************************************)
\* a 32-byte digest
Digest == [i \in 1..HashLen |-> (i * 37) % 256]

SeqsUpTo(S, n) == UNION {[1..k -> S] : k \in 0..n}

RECURSIVE Concat(_)
Concat(ss) == IF ss = <<>> THEN <<>> ELSE ss[1] \o Concat(Tail(ss))

MaxUint64 == Fill(255, 8)
MaxUint256 == Fill(255, alignment)

ArgSamples ==
  {GoValue("uint8", <<>>), GoValue("uint8", <<255>>), GoValue("uint16", <<1, 0>>),
   GoValue("uint32", <<1, 0, 0>>), GoValue("uint64", <<>>), GoValue("uint64", MaxUint64),
   GoValue("Address", FromPublicKey(Digest)),
   BigInt(FALSE, <<>>), BigInt(FALSE, MaxUint256), BigInt(TRUE, <<1, 0>>),
   BigInt(FALSE, <<1>> \o Fill(0, alignment)),       \* 2^256
   GoValue("string", <<"x">>)}

SupportedArgTypes == {"uint8", "uint16", "uint32", "uint64", "Address", "*big.Int"}

WordSamples ==
  {Fill(0, alignment),
   [Fill(0, alignment) EXCEPT ![alignment] = 1],
   [Fill(0, alignment) EXCEPT ![1] = 1],
   Fill(255, alignment)}

TailSamples == {<<>>, <<1>>, Fill(7, alignment - 1)}

DataSamples ==
  {Concat(ws) \o t : ws \in SeqsUpTo(WordSamples, MaxWords), t \in TailSamples}

OutputSamples ==
  {[Name |-> <<"o", "k">>, Type |-> TypeBool, Indexed |-> FALSE],
   [Name |-> <<"h">>, Type |-> TypeBytes32, Indexed |-> FALSE],
   [Name |-> <<"n">>, Type |-> TypeUint256, Indexed |-> FALSE],
   [Name |-> <<"t", "o">>, Type |-> "address", Indexed |-> FALSE]}

DecodedTypes == {TypeBool, TypeBytes32, TypeUint256}

FunctionSamples ==
  {[Name |-> "get", Mutability |-> "view", Inputs |-> <<>>, Outputs |-> outs] :
     outs \in SeqsUpTo(OutputSamples, MaxOutputs)}

\* outputs of the functions given to Unmarshal: the samples above, an output
\* without a name and a second output called "n"
UnmarshalOutputs ==
  OutputSamples \cup {[Name |-> <<>>, Type |-> TypeBool, Indexed |-> FALSE],
                      [Name |-> <<"n">>, Type |-> TypeBool, Indexed |-> FALSE]}

UnmarshalFunctions ==
  {[Name |-> "get", Mutability |-> "view", Inputs |-> <<>>, Outputs |-> outs] :
     outs \in SeqsUpTo(UnmarshalOutputs, MaxOutputs)}

\* the bytes given to Unmarshal: three words, or one
UnmarshalData ==
  {[Fill(0, alignment) EXCEPT ![alignment] = 1] \o Digest \o Fill(255, alignment),
   [Fill(0, alignment) EXCEPT ![1] = 1]}

\* a field of the structure given to Unmarshal: tag is the value of its abi
\* tag (empty when the field has no such tag, as Tag.Get returns it), type
\* its static type, value what it holds
Field(tag, type, k) == [tag |-> tag, type |-> type, value |-> GoValue("string", <<k>>)]

TargetSamples ==
  {<<Field(<<"o", "k">>, "interface{}", "a"), Field(<<"n">>, "interface{}", "b"),
     Field(<<>>, "interface{}", "c"), Field(<<"z", "z">>, "interface{}", "d")>>,
   <<Field(<<"$", "0">>, "interface{}", "a"), Field(<<"$", "1">>, "interface{}", "b"),
     Field(<<"$", "-", "1">>, "interface{}", "c")>>,
   <<Field(<<"$", "0">>, "interface{}", "a"), Field(<<"$", "x">>, "interface{}", "b"),
     Field(<<"h">>, "interface{}", "c")>>,
   <<Field(<<"t", "o">>, "interface{}", "a"), Field(<<"o", "k">>, "bool", "b"),
     Field(<<"n">>, "*big.Int", "c")>>}

\* entries of an interface description: two constructors, two functions
\* called get and one called set, two events called get, a fallback entry
Entry(type, name, mutability, inputs, outputs) ==
  [Type |-> type, Name |-> name, Mutability |-> mutability, Inputs |-> inputs, Outputs |-> outputs]

EntrySamples ==
  LET x == [Name |-> <<"x">>, Type |-> TypeUint256, Indexed |-> FALSE]
      ok == [Name |-> <<"o", "k">>, Type |-> TypeBool, Indexed |-> FALSE]
      from == [Name |-> <<"f">>, Type |-> TypeBytes32, Indexed |-> TRUE]
  IN {Entry("Constructor", "", "nonpayable", <<x>>, <<>>),
      Entry("Constructor", "", "payable", <<>>, <<>>),
      Entry("Function", "get", "view", <<>>, <<ok>>),
      Entry("Function", "get", "pure", <<x>>, <<x>>),
      Entry("Function", "set", "nonpayable", <<x>>, <<>>),
      Entry("Event", "get", "", <<from>>, <<>>),
      Entry("Event", "get", "", <<from, x>>, <<>>),
      Entry("Fallback", "", "payable", <<>>, <<>>)}

InterfaceSamples ==
  {[isArray |-> TRUE, entries |-> es] : es \in SeqsUpTo(EntrySamples, MaxEntries)}
    \cup {[isArray |-> FALSE, entries |-> <<>>]}

\* the ABI value that receives the description: a new one, or one loaded before
ReceiverSamples ==
  {NoABI,
   [Constructor |-> EntryFunction(Entry("Constructor", "", "nonpayable", <<>>, <<>>)),
    Functions |-> Store(<<>>, "old", EntryFunction(Entry("Function", "old", "view", <<>>, <<>>))),
    Events |-> Store(<<>>, "old", EntryEvent(Entry("Event", "old", "", <<>>, <<>>)))]}

AbiInputs ==
  {[kind |-> "args", args |-> args] : args \in SeqsUpTo(ArgSamples, MaxArgs)}
    \cup {[kind |-> "json", abi |-> a, json |-> d] : a \in ReceiverSamples, d \in InterfaceSamples}
    \cup {[kind |-> "data", fn |-> f, data |-> d] : f \in FunctionSamples, d \in DataSamples}
    \cup {[kind |-> "result", fn |-> f, data |-> d, target |-> v] :
            f \in UnmarshalFunctions, d \in UnmarshalData, v \in TargetSamples}

DoEncode ==
  /\ abiIn.kind = "args"
  /\ abiCall' = [op |-> "Encode", args |-> abiIn.args, out |-> Encode(abiIn.args)]
  /\ UNCHANGED <<abiIn, addrVars, signVars, cliVars>>

DoDecode ==
  /\ abiIn.kind = "data"
  /\ abiCall' = [op |-> "Decode", fn |-> abiIn.fn, data |-> abiIn.data,
                  encoded |-> FALSE, args |-> <<>>, out |-> Decode(abiIn.fn, abiIn.data)]
  /\ UNCHANGED <<abiIn, addrVars, signVars, cliVars>>

\* decoding the bytes the last Encode call returned
DoDecodeEncoded(f) ==
  /\ abiCall.op = "Encode"
  /\ abiCall.out.panic = ""
  /\ abiCall' = [op |-> "Decode", fn |-> f, data |-> abiCall.out.bytes,
                  encoded |-> TRUE, args |-> abiCall.args, out |-> Decode(f, abiCall.out.bytes)]
  /\ UNCHANGED <<abiIn, addrVars, signVars, cliVars>>

DoUnmarshal ==
  /\ abiIn.kind = "result"
  /\ abiCall' = [op |-> "Unmarshal", fn |-> abiIn.fn, data |-> abiIn.data, target |-> abiIn.target,
                  out |-> Unmarshal(abiIn.data, abiIn.fn, abiIn.target)]
  /\ UNCHANGED <<abiIn, addrVars, signVars, cliVars>>

DoABIUnmarshalJSON ==
  /\ abiIn.kind = "json"
  /\ abiCall' = [op |-> "UnmarshalJSON", abi |-> abiIn.abi, json |-> abiIn.json,
                  out |-> ABIUnmarshalJSON(abiIn.abi, abiIn.json)]
  /\ UNCHANGED <<abiIn, addrVars, signVars, cliVars>>

AbiNext ==
  \/ DoEncode
  \/ DoDecode
  \/ DoUnmarshal
  \/ DoABIUnmarshalJSON
  \/ \E f \in FunctionSamples : DoDecodeEncoded(f)

InitAbi ==
  AddrInit /\ SignInit /\ CliIdle /\ abiIn \in AbiInputs /\ abiCall = [op |-> "none"]

SpecAbi == InitAbi /\ [][AbiNext]_vars

(***************************************************************************)
(* Claims about encoding and decoding.                                      *)
(***************************************************************************)
\* word i (from 1) of b
Word(b, i) == SubSeq(b, alignment * (i - 1) + 1, alignment * i)

\* the value the decoding contract assigns to a word read as type t
ValueOfWord(t, w) ==
  CASE t = TypeBool -> GoValue("bool", w[alignment] # 0)
    [] t = TypeBytes32 -> GoValue("[32]byte", w)
    [] t = TypeUint256 -> BigInt(FALSE, StripZeros(w))

\* C2: for a function with n outputs of type bool, bytes32 or uint256 and an
\* input of at least 32*n bytes, Decode returns n values and the i-th is the
\* value of the i-th word alone.
C2_DecodeWordPerOutput ==
  ( /\ abiCall.op = "Decode"
    /\ \A i \in 1..Len(abiCall.fn.Outputs) : abiCall.fn.Outputs[i].Type \in DecodedTypes
    /\ Len(abiCall.data) >= alignment * Len(abiCall.fn.Outputs) )
    => /\ abiCall.out.err = "" /\ abiCall.out.panic = ""
       /\ Len(abiCall.out.values) = Len(abiCall.fn.Outputs)
       /\ \A i \in 1..Len(abiCall.fn.Outputs) :
             abiCall.out.values[i] = ValueOfWord(abiCall.fn.Outputs[i].Type, Word(abiCall.data, i))

\* the number of outputs among the first k that Decode reads a word for
WordsBefore(outs, k) == Cardinality({i \in 1..k : outs[i].Type \in DecodedTypes})

\* C3: Decode returns an error and no values whenever fewer than 32 bytes
\* remain where an output of type bool, bytes32 or uint256 is to be read,
\* inputs of 1 to 31 bytes included.
C3_TruncatedInput ==
  ( /\ abiCall.op = "Decode"
    /\ \E k \in 1..Len(abiCall.fn.Outputs) :
          /\ abiCall.fn.Outputs[k].Type \in DecodedTypes
          /\ Len(abiCall.data) < alignment * WordsBefore(abiCall.fn.Outputs, k) )
    => abiCall.out.err # "" /\ abiCall.out.panic = "" /\ abiCall.out.values = <<>>

\* C4: decoding Encode(v) against one uint256 output returns v for every
\* unsigned integer v of 8 to 64 bits and every big integer 0 <= v < 2^256;
\* decoding Encode(a) against one bytes32 output returns 12 zero bytes
\* followed by bytes 1..20 of the address a.
C4_EncodeDecodeRoundTrip ==
  ( /\ abiCall.op = "Decode" /\ abiCall.encoded
    /\ Len(abiCall.args) = 1 /\ Len(abiCall.fn.Outputs) = 1 )
    => LET v == abiCall.args[1]
           t == abiCall.fn.Outputs[1].Type
           number == \/ v.type \in {"uint8", "uint16", "uint32", "uint64"}
                     \/ v.type = "*big.Int" /\ ~v.neg /\ Len(v.val) <= alignment
       IN /\ (number /\ t = TypeUint256) =>
                abiCall.out = [values |-> <<BigInt(FALSE, v.val)>>, err |-> "", panic |-> ""]
          /\ (v.type = "Address" /\ t = TypeBytes32) =>
                abiCall.out = [values |-> <<GoValue("[32]byte", Fill(0, 12) \o SubSeq(v.val, 2, 21))>>,
                               err |-> "", panic |-> ""]

\* an encoded 16-bit integer with two different bytes has been decoded as uint256
C4_Witness ==
  /\ abiCall.op = "Decode" /\ abiCall.encoded
  /\ Len(abiCall.args) = 1 /\ Len(abiCall.fn.Outputs) = 1
  /\ abiCall.args[1] = GoValue("uint16", <<1, 0>>)
  /\ abiCall.fn.Outputs[1].Type = TypeUint256

\* the word the encoding contract assigns to an argument
WordOfArg(v) ==
  CASE v.type = "Address" -> Fill(0, 12) \o SubSeq(v.val, 2, 21)
    [] v.type = "*big.Int" /\ v.neg -> Fill(255, alignment - Len(v.val)) \o v.val
    [] OTHER -> Fill(0, alignment - Len(v.val)) \o v.val

\* C5: for every list of n arguments of supported types (unsigned integers,
\* addresses, big integers of either sign) Encode returns 32*n bytes whose
\* k-th word is the k-th argument right-aligned, filled with 0x00, or with
\* 0xFF for a negative big integer.
C5_EncodeWordPerArgument ==
  ( /\ abiCall.op = "Encode"
    /\ \A k \in 1..Len(abiCall.args) : abiCall.args[k].type \in SupportedArgTypes )
    => /\ abiCall.out.panic = ""
       /\ Len(abiCall.out.bytes) = alignment * Len(abiCall.args)
       /\ \A k \in 1..Len(abiCall.args) :
             Word(abiCall.out.bytes, k) = WordOfArg(abiCall.args[k])

\* the greatest element of a set of positions
Last(S) == CHOOSE x \in S : \A y \in S : y <= x

\* the positions of the entries of a kind, and of those with a name
OfKind(es, kind) == {i \in 1..Len(es) : es[i].Type = kind}
OfKindNamed(es, kind, name) == {i \in OfKind(es, kind) : es[i].Name = name}

\* C14: ABI.UnmarshalJSON on an entry sequence raises no error, whatever
\* the duplicates; afterwards the constructor is the last entry of kind
\* Constructor, the function mapping has exactly the names of the entries of
\* kind Function and holds under each the last such entry of that name, the
\* event mapping likewise for the entries of kind Event, so that every entry
\* is routed by its kind to one of the three only.
C14_LastWriteWinsRouting ==
  (abiCall.op = "UnmarshalJSON" /\ abiCall.json.isArray) =>
    LET es == abiCall.json.entries
        a == abiCall.out.abi
    IN /\ abiCall.out.err = ""
       /\ OfKind(es, "Constructor") # {} =>
            LET e == es[Last(OfKind(es, "Constructor"))]
            IN a.Constructor = [Name |-> e.Name, Mutability |-> e.Mutability,
                                Inputs |-> e.Inputs, Outputs |-> e.Outputs]
       /\ DOMAIN a.Functions = {es[i].Name : i \in OfKind(es, "Function")}
       /\ \A n \in DOMAIN a.Functions :
            LET e == es[Last(OfKindNamed(es, "Function", n))]
            IN a.Functions[n] = [Name |-> e.Name, Mutability |-> e.Mutability,
                                 Inputs |-> e.Inputs, Outputs |-> e.Outputs]
       /\ DOMAIN a.Events = {es[i].Name : i \in OfKind(es, "Event")}
       /\ \A n \in DOMAIN a.Events :
            LET e == es[Last(OfKindNamed(es, "Event", n))]
            IN a.Events[n] = [Name |-> e.Name, Inputs |-> e.Inputs]

\* a description with two different entries of kind Function called get has
\* been loaded into an ABI value that was loaded before
C14_Witness ==
  /\ abiCall.op = "UnmarshalJSON" /\ abiCall.json.isArray
  /\ abiCall.abi # NoABI
  /\ \E i, j \in OfKind(abiCall.json.entries, "Function") :
       /\ i < j
       /\ abiCall.json.entries[i].Name = abiCall.json.entries[j].Name
       /\ abiCall.json.entries[i] # abiCall.json.entries[j]
  /\ DOMAIN abiCall.out.abi.Functions = {"get"}

\* an Unmarshal call has returned without an error
Unmarshalled == abiCall.op = "Unmarshal" /\ abiCall.out.err = "" /\ abiCall.out.panic = ""

\* the positions (from 1) of the outputs of f called name
Named(f, name) == {k \in 1..Len(f.Outputs) : f.Outputs[k].Name = name}

\* C13: after Unmarshal, for every field of the target: a selector "$n" has
\* assigned decoded value n, any other selector has assigned the decoded
\* value at the position of the first output whose name equals it, and a
\* field whose selector matches no output name, as well as every field
\* without an abi tag, holds the value it had before the call.
C13_AssignBySelector ==
  Unmarshalled =>
    LET f == abiCall.fn
        values == Decode(f, abiCall.data).values
        before == abiCall.target
        after == abiCall.out.v
    IN \A i \in 1..Len(before) :
         LET selector == before[i].tag
         IN CASE selector = <<>> -> after[i] = before[i]
              [] selector # <<>> /\ selector[1] = "$" ->
                   LET n == Atoi(Tail(selector)).n
                   IN n \in 0..(Len(values) - 1) => after[i].value = values[n + 1]
              [] OTHER ->
                   IF Named(f, selector) = {} THEN after[i] = before[i]
                   ELSE after[i].value = values[Min(Named(f, selector))]

\* the Go type of the value Decode makes for an output of type t
DecodedGoType(t) ==
  CASE t = TypeBool -> "bool"
    [] t = TypeBytes32 -> "[32]byte"
    [] t = TypeUint256 -> "*big.Int"
    [] OTHER -> "none"

\* C16: a Decode call that succeeds returns exactly one value per declared
\* output, whatever the declared types; hence an Unmarshal call whose
\* selectors are names never indexes past the end of the decoded values, and
\* the value it assigns for a name is the one decoded for the first output of
\* that name.
C16_ValuePerDeclaredOutput ==
  /\ (abiCall.op = "Decode" /\ abiCall.out.err = "" /\ abiCall.out.panic = "") =>
       Len(abiCall.out.values) = Len(abiCall.fn.Outputs)
  /\ ( /\ abiCall.op = "Unmarshal"
       /\ Decode(abiCall.fn, abiCall.data).err = ""
       /\ Decode(abiCall.fn, abiCall.data).panic = ""
       /\ \A i \in 1..Len(abiCall.target) :
            abiCall.target[i].tag = <<>> \/ abiCall.target[i].tag[1] # "$" ) =>
       /\ abiCall.out.panic # "index out of range"
       /\ (abiCall.out.err = "" /\ abiCall.out.panic = "") =>
            \A i \in 1..Len(abiCall.target) :
              LET at == Named(abiCall.fn, abiCall.target[i].tag)
              IN at # {} =>
                   abiCall.out.v[i].value.type = DecodedGoType(abiCall.fn.Outputs[Min(at)].Type)

(***************************************************************************)
(* Signing.  A caller receives a transaction from the node and signs it    *)
(* with one key after another.                                              *)
(***************************************************************************)
IdSamples ==
  LET id == EncodeToString(Digest)
  IN {id,                              \* the hex of a 32-byte digest
      [id EXCEPT ![10] = "x"],         \* not hexadecimal
      id \o <<"z", "z">>,              \* not hexadecimal after 32 well-formed bytes
      SubSeq(id, 1, 63),               \* odd length
      SubSeq(id, 1, 4),                \* hexadecimal, not a 32-byte digest
      <<>>}

Keys == {3, 7}

SignatureSamples ==
  {<<>>, <<EncodeToString(cryptoSign(Digest, 11).sig)>>}

TransactionSamples ==
  {[Id |-> id, Signatures |-> sigs, RawData |-> "raw_data"] :
     id \in IdSamples, sigs \in SignatureSamples}

Receive(t) ==
  /\ tx' = t
  /\ tx0' = t
  /\ signLog' = <<>>
  /\ UNCHANGED <<addrVars, abiVars, cliVars>>

DoSign(key) ==
  LET r == Sign(tx, key)
  IN /\ Len(signLog) < MaxSigns
     /\ tx' = r.tx
     /\ signLog' = Append(signLog, [key |-> key, id |-> tx.Id, err |-> r.err,
                                    before |-> tx.Signatures, after |-> r.tx.Signatures])
     /\ UNCHANGED <<tx0, addrVars, abiVars, cliVars>>

SignNext ==
  \/ \E t \in TransactionSamples : Receive(t)
  \/ \E key \in Keys : DoSign(key)

(***************************************************************************)
(* Claims about signing.                                                   *)
(***************************************************************************)
Succeeded(e) == e.err = ""

\* the signatures the successful calls of the log must have produced, in call order
ExpectedSignatures ==
  LET ok == SelectSeq(signLog, Succeeded)
  IN [i \in 1..Len(ok) |->
        EncodeToString(cryptoSign(DecodeString(tx0.Id).bytes, ok[i].key).sig)]

\* C8: after any sequence of Sign calls the signature list is the list the
\* transaction came with followed by one signature per successful call, in
\* call order; a successful call lengthens the list by one and keeps the
\* previous list as a prefix; the identifier and the raw data never change.
C8_SignaturesAccumulate ==
  /\ tx.Id = tx0.Id
  /\ tx.RawData = tx0.RawData
  /\ tx.Signatures = tx0.Signatures \o ExpectedSignatures
  /\ \A i \in 1..Len(signLog) :
        signLog[i].err = "" =>
          /\ Len(signLog[i].after) = Len(signLog[i].before) + 1
          /\ SubSeq(signLog[i].after, 1, Len(signLog[i].before)) = signLog[i].before

\* two successful calls with different keys on a transaction that came signed
C8_Witness ==
  /\ tx0.Signatures # <<>>
  /\ \E i, j \in 1..Len(signLog) :
        i < j /\ signLog[i].err = "" /\ signLog[j].err = "" /\ signLog[i].key # signLog[j].key

\* C9: Sign on a transaction whose identifier is not valid hexadecimal returns
\* an error and leaves the signature list as it was, whatever it held.
C9_MalformedIdAppendsNothing ==
  \A i \in 1..Len(signLog) :
    DecodeString(signLog[i].id).err # "" =>
      signLog[i].err # "" /\ signLog[i].after = signLog[i].before

\* a Sign call on a signed transaction whose identifier decodes to 32 bytes
\* before its first character that is not hexadecimal
C9_Witness ==
  \E i \in 1..Len(signLog) :
    /\ DecodeString(signLog[i].id).err = "InvalidByteError"
    /\ Len(DecodeString(signLog[i].id).bytes) = HashLen
    /\ signLog[i].before # <<>>

InitSign == AddrInit /\ AbiIdle /\ SignInit /\ CliIdle

SpecSign == InitSign /\ [][SignNext]_vars

(***************************************************************************)
(* Contract calls.  A caller starts from an account, a call input and the  *)
(* answer the node gives if a request reaches it, and makes the call.      *)
(***************************************************************************)
Mutabilities == {"pure", "view", "payable", "nonpayable", ""}

CallFunction(m) ==
  [Name |-> "set", Mutability |-> m,
   Inputs |-> <<[Name |-> <<"x">>, Type |-> TypeUint256, Indexed |-> FALSE]>>,
   Outputs |-> <<[Name |-> <<"o", "k">>, Type |-> TypeBool, Indexed |-> FALSE]>>]

ArgumentSamples ==
  {<<>>, <<GoValue("uint64", MaxUint64)>>, <<GoValue("string", <<"x">>)>>,
   <<BigInt(FALSE, <<1>> \o Fill(0, alignment))>>}

TargetSample == <<[tag |-> <<"o", "k">>, type |-> "bool", value |-> GoValue("bool", FALSE)]>>

CallInputs ==
  {[Address |-> <<prefix>> \o Payload20, Function |-> CallFunction(m), Arguments |-> args,
    FeeLimit |-> 1000, CallValue |-> cv, Result |-> TargetSample] :
     m \in Mutabilities, args \in ArgumentSamples, cv \in {0, 1}}

Account == [addr |-> FromPublicKey(Digest), priv |-> 3]

Replies ==
  LET unsigned(id) == [Id |-> id, Signatures |-> <<>>, RawData |-> "raw_data"]
      answer(res, t) == [err |-> "", Result |-> res, Transaction |-> t]
  IN {[err |-> "client: unexpected status code (500)", Result |-> <<>>, Transaction |-> NoTransaction],
      answer(<<>>, unsigned(EncodeToString(Digest))),
      answer(<<>>, unsigned(<<"z", "z">>)),
      answer(<<>>, [Id |-> EncodeToString(Digest), Signatures |-> <<EncodeToString(Fill(9, SigLen))>>,
                    RawData |-> "raw_data"]),
      answer(<<EncodeToString([Fill(0, alignment) EXCEPT ![alignment] = 1])>>, NoTransaction),
      answer(<<<<"z", "z">>>>, NoTransaction)}

ClientInputs ==
  {[kind |-> "call", acc |-> Account, input |-> in, reply |-> r] : in \in CallInputs, r \in Replies}

DoCallContract ==
  /\ cliIn.kind = "call"
  /\ cliCall' = [op |-> "CallContract", out |-> CallContract(cliIn.acc, cliIn.input, cliIn.reply)]
  /\ UNCHANGED <<cliIn, depVars, addrVars, abiVars, signVars>>

DoTriggerSmartContract ==
  /\ cliIn.kind = "call"
  /\ cliCall' = [op |-> "TriggerSmartContract",
                  out |-> TriggerSmartContract(cliIn.acc, cliIn.input, cliIn.reply)]
  /\ UNCHANGED <<cliIn, depVars, addrVars, abiVars, signVars>>

CliNext ==
  \/ DoCallContract
  \/ DoTriggerSmartContract

InitClient ==
  /\ AddrInit /\ AbiIdle /\ SignInit /\ DepIdle
  /\ cliIn \in ClientInputs /\ cliCall = [op |-> "none"]

SpecClient == InitClient /\ [][CliNext]_vars

(***************************************************************************)
(* Claims about contract calls.                                             *)
(***************************************************************************)
\* a call has been made to a function that is not payable, with a call value
ValueToNonPayable ==
  /\ cliCall.op \in {"CallContract", "TriggerSmartContract"}
  /\ ~Payable(cliIn.input.Function)
  /\ cliIn.input.CallValue > 0

Occurs(step, steps) == \E i \in 1..Len(steps) : steps[i] = step

\* C6: a call to a function that is not payable with a call value greater
\* than zero fails with the value-transfer error before any encoding of the
\* arguments: Encode is never executed on such a call.
C6_RejectedBeforeEncoding ==
  ValueToNonPayable =>
    /\ cliCall.out.err = ErrNonPayable
    /\ cliCall.out.panic = ""
    /\ ~Occurs("Encode", cliCall.out.steps)

\* C7: a call to a function whose mutability is not "payable" with a call
\* value greater than zero returns an explicit error, no request has been
\* posted to the node and nothing has been signed, whatever the mutability.
C7_RejectedBeforePosting ==
  ValueToNonPayable =>
    /\ cliCall.out.err = ErrNonPayable
    /\ cliCall.out.panic = ""
    /\ cliCall.out.posts = <<>>
    /\ ~Occurs("post", cliCall.out.steps)
    /\ ~Occurs("Sign", cliCall.out.steps)

\* the number of times a step was executed by a call
Count(step, steps) == Cardinality({i \in 1..Len(steps) : steps[i] = step})

NodeSamples ==
  {[kind |-> "silent", n |-> 0]}
    \cup {[kind |-> k, n |-> n] : k \in {"reports", "fails"}, n \in 0..(MaxPolls - 1)}

\* the node's answer to the request number k (from 0) for transaction id
NodeInfo(node, id, k) ==
  CASE node.kind = "reports" /\ k >= node.n -> [err |-> "", info |-> [Id |-> id]]
    [] node.kind = "fails" /\ k >= node.n ->
         [err |-> "client: unexpected status code (500)", info |-> [Id |-> <<>>]]
    [] OTHER -> [err |-> "", info |-> [Id |-> <<>>]]

DeployInputs ==
  LET received(id) == [err |-> "", Transaction |-> [Id |-> id, Signatures |-> <<>>, RawData |-> "raw_data"]]
  IN {[kind |-> "deploy", acc |-> [addr |-> FromPublicKey(Digest), priv |-> key],
       input |-> [Arguments |-> args], reply |-> r, broadcast |-> b, node |-> nd] :
        key \in Keys,
        args \in {<<>>, <<GoValue("string", <<"x">>)>>},
        r \in {[err |-> "client: unexpected status code (500)", Transaction |-> NoTransaction],
               received(EncodeToString(Digest)), received(<<"z", "z">>)},
        b \in {[err |-> "client: unexpected status code (500)", Result |-> FALSE],
               [err |-> "", Result |-> FALSE], [err |-> "", Result |-> TRUE]},
        nd \in NodeSamples}

Returned(isNil, info, err, panic) ==
  [op |-> "DeployContract", isNil |-> isNil, info |-> info, err |-> err, panic |-> panic]

DoDeployContract ==
  /\ pc = "start"
  /\ LET d == DeployContract(depIn.acc, depIn.input, depIn.reply, depIn.broadcast)
     IN /\ depTx' = d.tx
        /\ IF d.awaiting THEN pc' = "await" /\ UNCHANGED depOut
           ELSE pc' = "returned" /\ depOut' = Returned(TRUE, [Id |-> <<>>], d.err, d.panic)
  /\ UNCHANGED <<depIn, polls, cliIn, cliCall, addrVars, abiVars, signVars>>

\* one iteration of the loop of await up to its return or its sleep
AwaitPoll ==
  /\ pc = "await"
  /\ LET r == TransactionInfoById(depTx.Id, NodeInfo(depIn.node, depTx.Id, polls))
     IN IF r.err = "" /\ r.isNil THEN pc' = "sleep" /\ UNCHANGED depOut
        ELSE pc' = "returned" /\ depOut' = Returned(r.isNil, r.info, r.err, "")
  /\ polls' = IF polls < MaxPolls THEN polls + 1 ELSE polls
  /\ UNCHANGED <<depIn, depTx, cliIn, cliCall, addrVars, abiVars, signVars>>

\* time.Sleep(c.throttle) ends and the loop continues
AwaitSleep ==
  /\ pc = "sleep"
  /\ pc' = "await"
  /\ UNCHANGED <<depIn, depTx, polls, depOut, cliIn, cliCall, addrVars, abiVars, signVars>>

DepNext ==
  \/ DoDeployContract
  \/ AwaitPoll
  \/ AwaitSleep

InitDeploy ==
  /\ AddrInit /\ AbiIdle /\ SignInit
  /\ cliIn = [kind |-> "none"] /\ cliCall = [op |-> "none"]
  /\ depIn \in DeployInputs /\ pc = "start" /\ depTx = NoTransaction /\ polls = 0
  /\ depOut = [op |-> "none"]

SpecDeploy == InitDeploy /\ [][DepNext]_vars

\* the goroutine in await keeps running: its next request is made, its sleep ends
SpecDeployLive == SpecDeploy /\ WF_vars(AwaitPoll) /\ WF_vars(AwaitSleep)

(***************************************************************************)
(* Claims about deployment.                                                 *)
(***************************************************************************)
\* C15: when the node never reports information for the awaited transaction
\* (every TransactionInfoById request returns no information and no error),
\* await gives up after a timeout: the DeployContract call that entered await
\* eventually returns.
C15_AwaitGivesUp ==
  (pc = "await" /\ depIn.node.kind = "silent") ~> (pc = "returned")

====
